---- MODULE Spec2Model ----
(***************************************************************************)
(* Model of the AI Knowledge Library: the document store (MongoDB          *)
(* collections documents / knowledge_base / queries), the FAISS similarity *)
(* index held by VectorService, ingestion (DocumentService.process_document*)
(* followed by VectorService.add_document_chunks), deletion with its full  *)
(* rebuild, QAService.answer_question behind POST /ask, the POST /upload     *)
(* endpoint, and the text splitter that cuts a loaded text into chunks.     *)
(*                                                                         *)
(* The service runs on one asyncio event loop: code between two awaits is  *)
(* one atomic step, every await is a point where other tasks may run.      *)
(* Every external call (store I/O, embedding, generation, index file I/O)  *)
(* may fail.                                                               *)
(***************************************************************************)
EXTENDS Integers, Sequences, FiniteSets, TLC

\* Identifiers of the uploads of one run (uuid4 values, each used once).
DocIds == {"d1", "d2"}

\* Largest number of chunks the splitter yields for one document in the model.
MaxChunks == 2

\* Largest max_results (k) a search is asked for in the model.
MaxK == 3

\* Number of answer_question calls of one run in the model.
MaxQueries == 1

\* Distances the index may report for a hit, in hundredths. FAISS reports the
\* squared L2 distance, which for unit vectors ranges over [0, 4].
Distances == {0, 50, 150, 300}

\* Lengths of the text the generation capability may return.
AnswerLengths == {0, 100, 400}

\* Largest chunk_size of the text splitter in the model.
MaxChunkSize == 4

\* Longest text handed to the text splitter in the model.
MaxTextLength == 9

\* settings.CHUNK_SIZE and settings.CHUNK_OVERLAP, the values the service
\* runs with unless the environment overrides them.
CHUNK_SIZE == 1000

CHUNK_OVERLAP == 200

\* Lengths of the message of an exception, str(e).
ErrorLengths == {0, 40}

\* Lengths of the question of a POST /ask request.
QuestionLengths == {0, 2, 3, 1001}

\* Content types the upload endpoint lets through (settings.ALLOWED_FILE_TYPES),
\* abbreviated: plain text stands for the three types that have a loader.
TextPlain == "text/plain"
DocxType == "application/vnd.openxmlformats-officedocument.wordprocessingml.document"
ALLOWED_FILE_TYPES == {TextPlain, DocxType}

\* DocumentService.loaders: the content types process_document can load.
loaders == {TextPlain}

VARIABLES
    app,             \* "created" | "serving" | "crashed": the FastAPI process
    documents,       \* database.documents: doc id -> record (status "absent": no record)
    knowledge_base,  \* database.knowledge_base: chunk records in insertion order
    vector_store,    \* vector_service.vector_store: None or the FAISS index in memory
    persisted,       \* index.faiss under VECTOR_STORE_PATH: None or the saved index
    ing,             \* per upload: the background ingestion task
    del,             \* per doc id: the DELETE request being served
    snapshot,        \* history: the index contents as of the last completed index update
    qa,              \* the answer_question call being served
    queries,         \* database.queries: the saved query records, in insertion order
    upload,          \* per upload: the POST /upload request and its response
    splitter         \* the text splitter at work on one text (split_documents)

vars == <<app, documents, knowledge_base, vector_store, persisted, ing, del,
          snapshot, qa, queries, upload, splitter>>

-----------------------------------------------------------------------------
\* Values

\* Optional[FAISS] = None
None == [exists |-> FALSE, index |-> <<>>]

Store(entries) == [exists |-> TRUE, index |-> entries]

\* The entry FAISS.from_texts(texts=[""]) creates: empty text, no metadata, so
\* its document id reads as "unknown".
Placeholder == [document_id |-> "unknown", chunk_index |-> 0]

NoDocument == [status |-> "absent", chunk_count |-> 0, error |-> "none"]

\* chunk_records of process_document: ids doc_chunk_0 .. doc_chunk_(n-1)
ChunkRecords(d, n) == [i \in 1..n |-> [document_id |-> d, chunk_index |-> i - 1]]

\* knowledge_base.find({"document_id": d})
FindByDocument(kb, d) == SelectSeq(kb, LAMBDA c : c.document_id = d)

\* knowledge_base.delete_many({"document_id": d})
DeleteMany(kb, d) == SelectSeq(kb, LAMBDA c : c.document_id # d)

\* from_texts leaving out the last of the texts it is given
FromTextsDropsLast(chunks) == Store(SubSeq(chunks, 1, Len(chunks) - 1))

\* FAISS.from_texts(texts, metadatas): one entry per enumerated chunk, in order
FromTexts(chunks) == Store(chunks)

\* add_texts exposing a batch it has merged only in part
AddTextsPartial(store, batch) == Store(store.index \o SubSeq(batch, 1, 1))

\* vector_store.add_texts(texts, metadatas): appends the batch to the index in place
AddTexts(store, batch) == Store(store.index \o batch)

\* The document ids of the entries an index holds
IndexedDocs(store) == {store.index[i].document_id : i \in 1..Len(store.index)}

IdleIngest == [pc |-> "idle", content_type |-> TextPlain, chunks |-> 0,
               error |-> "none", batch |-> <<>>, add |-> "none"]

\* unindexed (history): the documents whose add_document_chunks had failed
\* when the rebuild enumerated the chunks
IdleDelete == [pc |-> "idle", enumerated |-> <<>>, unindexed |-> {}]

Min(a, b) == IF a <= b THEN a ELSE b

\* The sequences of n distinct positions of an index of the given length
Picks(length, n) ==
    {p \in [1..n -> 1..length] : \A i, j \in 1..n : i # j => p[i] # p[j]}

\* similarity_search_with_score(query, k) on an index: the min(k, size) entries
\* nearest to the query. Which entries those are depends on the embedding of
\* the query, so every choice of distinct entries is a possible result.
SearchHits(store, k) ==
    LET n == Min(k, Len(store.index))
    IN  {[i \in 1..n |-> store.index[p[i]]] : p \in Picks(Len(store.index), n)}

-----------------------------------------------------------------------------
\* Values of answer_question. Scores and relevance scores are in hundredths;
\* a confidence is the exact fraction <<numerator, denominator>>, denominator > 0.

Zero == <<0, 1>>

\* min(0.95, confidence) (line 92)
ConfidenceCap == <<95, 100>>

\* len(result) / 200 (line 84)
LengthScale == 200

\* len() of the fixed answer of the no-result return (line 43)
NoResultAnswerLen == 91

\* len() of the fixed head of the answer of the error return (line 110)
ErrorAnswerHeadLen == 55

Less(a, b) == a[1] * b[2] < b[1] * a[2]

Leq(a, b) == a[1] * b[2] <= b[1] * a[2]

NoResponse == [answer |-> [kind |-> "none", len |-> 0], confidence |-> Zero,
               sources |-> <<>>, query_id |-> 0]

\* status_code 0: no response yet.
IdleQuery == [pc |-> "idle", query_id |-> 0, question_len |-> 0, status_code |-> 0,
              include_sources |-> TRUE,
              docs_with_scores |-> <<>>, generation |-> "not_invoked",
              result_len |-> 0, response |-> NoResponse, raised |-> FALSE,
              saved |-> "not_attempted"]

\* QueryRequest.question: Field(..., min_length=3, max_length=1000)
MinQuestionLength == 3

MaxQuestionLength == 1000

\* A QueryRequest whose question may have any length up to the maximum
ValidQuestionNoMinimum(len) == len <= MaxQuestionLength

\* The validation of the question of a QueryRequest, which FastAPI runs on the
\* body of POST /ask before it calls the endpoint function
ValidQuestion(len) == len >= MinQuestionLength /\ len <= MaxQuestionLength

\* The lists of n scores in ascending order, as the index reports them
Ascending(n) ==
    {sc \in [1..n -> Distances] : \A i \in 1..n : i < n => sc[i] <= sc[i + 1]}

-----------------------------------------------------------------------------
\* Values of the upload endpoint and of the text splitter

\* A content type that is not in settings.ALLOWED_FILE_TYPES
XyzType == "application/xyz"

\* The content types a client may send
ContentTypes == {TextPlain, DocxType, XyzType}

\* too_large: the file exceeds MAX_FILE_SIZE. status_code 0: no response yet.
\* added: add_task was called. background: the response that was sent carries
\* the background tasks, so they run.
IdleUpload == [pc |-> "idle", content_type |-> TextPlain, too_large |-> FALSE,
               status_code |-> 0, body |-> "none", added |-> FALSE,
               background |-> FALSE]

\* The settings the text splitter is constructed with (document_service.py
\* lines 19-24): the configured ones, or small ones with 0 <= overlap < size.
SplitterSettings ==
    {[chunk_size |-> s, chunk_overlap |-> o] :
        s \in 1..MaxChunkSize, o \in 0..(MaxChunkSize - 1)} \cup
    {[chunk_size |-> CHUNK_SIZE, chunk_overlap |-> CHUNK_OVERLAP]}

\* Lengths of the texts that are split: short ones, and a document of 2500
\* characters.
TextLengths == 0..MaxTextLength \cup {2500}

\* length: len() of the text; next: the split the for loop of _merge_splits is
\* at; total: the length of current_doc; docs: the number of chunks emitted so
\* far. pc "pop": inside the while loop that follows an emitted chunk.
IdleSplitter == [pc |-> "idle", chunk_size |-> 1, chunk_overlap |-> 0,
                 length |-> 0, next |-> 0, total |-> 0, docs |-> 0]

-----------------------------------------------------------------------------
Init ==
    /\ app = "created"
    /\ documents = [d \in DocIds |-> NoDocument]
    /\ knowledge_base = <<>>
    /\ vector_store = None
    /\ persisted = None
    /\ ing = [d \in DocIds |-> IdleIngest]
    /\ del = [d \in DocIds |-> IdleDelete]
    /\ snapshot = None
    /\ qa = IdleQuery
    /\ queries = <<>>
    /\ upload = [d \in DocIds |-> IdleUpload]
    /\ splitter = IdleSplitter

-----------------------------------------------------------------------------
\* The index operations of VectorService

\* A rebuild that adds the enumerated chunks to the index it finds instead of
\* building a new one
RebuildResultAppends(chunks, store, disk, embedOk, saveOk) ==
    IF ~embedOk
    THEN [vector_store |-> store, persisted |-> disk, raised |-> TRUE]
    ELSE [vector_store |-> Store(store.index \o chunks),
          persisted |-> IF saveOk THEN Store(store.index \o chunks) ELSE disk,
          raised |-> ~saveOk]

\* The synchronous part of rebuild_vector_store once the enumeration is in hand
\* (lines 56-77): build the index from the enumerated chunks, assign it to
\* self.vector_store, save it. embedOk: the embedding call succeeds; saveOk:
\* save_local succeeds. An empty enumeration builds the one-entry index of the
\* empty text and saves nothing.
RebuildResult(chunks, store, disk, embedOk, saveOk) ==
    IF ~embedOk
    THEN [vector_store |-> store, persisted |-> disk, raised |-> TRUE]
    ELSE IF chunks # <<>>
         THEN [vector_store |-> FromTexts(chunks),
               persisted |-> IF saveOk THEN FromTexts(chunks) ELSE disk,
               raised |-> ~saveOk]
         ELSE [vector_store |-> Store(<<Placeholder>>), persisted |-> disk,
               raised |-> FALSE]

\* An add_document_chunks without the check that there is something to add
\* and an index to add it to
AddResultUnguarded(batch, store, disk, embedOk, saveOk) ==
    IF ~embedOk
    THEN [vector_store |-> store, persisted |-> disk, add |-> "failed"]
    ELSE [vector_store |-> AddTexts(store, batch),
          persisted |-> IF saveOk THEN AddTexts(store, batch) ELSE disk,
          add |-> IF saveOk THEN "ok" ELSE "failed"]

\* The synchronous part of add_document_chunks once the document's chunks are
\* in hand (lines 92-105): "ok" | "failed" (exception logged) | "skipped".
AddResult(batch, store, disk, embedOk, saveOk) ==
    IF batch # <<>> /\ store.exists
    THEN IF ~embedOk
         THEN [vector_store |-> store, persisted |-> disk, add |-> "failed"]
         ELSE [vector_store |-> AddTexts(store, batch),
               persisted |-> IF saveOk THEN AddTexts(store, batch) ELSE disk,
               add |-> IF saveOk THEN "ok" ELSE "failed"]
    ELSE [vector_store |-> store, persisted |-> disk, add |-> "skipped"]

-----------------------------------------------------------------------------
\* Startup

\* VectorService.initialize_vector_store, run by lifespan before any request is
\* served. No other task runs during startup, so it is one step. The booleans
\* say which external calls succeed.
InitializeVectorStore ==
    /\ app = "created"
    /\ \E loadOk \in BOOLEAN, findOk \in BOOLEAN, embedOk \in BOOLEAN,
          saveOk \in BOOLEAN, fallbackOk \in BOOLEAN :
         LET r == RebuildResult(knowledge_base, vector_store, persisted, embedOk, saveOk)
             first ==
               IF persisted.exists
               THEN [vector_store |-> IF loadOk THEN persisted ELSE vector_store,
                     persisted |-> persisted, raised |-> ~loadOk]
               ELSE IF findOk THEN r
                    ELSE [vector_store |-> vector_store, persisted |-> persisted,
                          raised |-> TRUE]
         IN  /\ persisted' = first.persisted
             /\ IF ~first.raised
                THEN /\ vector_store' = first.vector_store
                     /\ app' = "serving"
                ELSE \* except: FAISS.from_texts(texts=[""]), which may raise too
                     /\ vector_store' = IF fallbackOk THEN Store(<<Placeholder>>)
                                        ELSE first.vector_store
                     /\ app' = IF fallbackOk THEN "serving" ELSE "crashed"
    /\ snapshot' = vector_store'
    /\ UNCHANGED <<documents, knowledge_base, ing, del, qa, queries, upload, splitter>>

\* The test client (conftest.py) serves requests without running lifespan:
\* vector_store stays None.
ServeWithoutLifespan ==
    /\ app = "created"
    /\ app' = "serving"
    /\ UNCHANGED <<documents, knowledge_base, vector_store, persisted, ing, del,
                   snapshot, qa, queries, upload, splitter>>

-----------------------------------------------------------------------------
\* POST /upload

\* upload_document up to its first await (lines 26-44): the size check, which
\* applies only when the UploadFile has a size (hasattr(file, 'size') and
\* file.size), then the content type check.
UploadDocument(d) ==
    /\ app = "serving"
    /\ upload[d].pc = "idle"
    /\ \E ct \in ContentTypes, too_large \in BOOLEAN, sizeKnown \in BOOLEAN :
         LET request == [IdleUpload EXCEPT !.content_type = ct,
                                           !.too_large = too_large]
         IN  upload' = [upload EXCEPT ![d] =
                IF sizeKnown /\ too_large
                THEN [request EXCEPT !.pc = "responded", !.status_code = 413,
                                     !.body = "detail"]
                ELSE IF ct \notin ALLOWED_FILE_TYPES
                     THEN [request EXCEPT !.pc = "responded", !.status_code = 400,
                                          !.body = "detail"]
                     ELSE [request EXCEPT !.pc = "save"]]
    /\ UNCHANGED <<app, documents, knowledge_base, vector_store, persisted, ing, del,
                   snapshot, qa, queries, splitter>>

\* The return statement of upload_document (lines 56-63). Its argument
\* upload_date=datetime.utcnow() is evaluated first, and documents.py imports
\* no name datetime: the evaluation raises NameError, the except block (lines
\* 65-67) turns it into HTTPException(500), and the background tasks, which
\* FastAPI attaches to the response an endpoint returns, are attached to nothing.
UploadResponse(request) ==
    [request EXCEPT !.pc = "responded", !.status_code = 500, !.body = "detail",
                    !.background = FALSE]

\* upload_document from file.read() on (lines 42-67): the file is saved, the
\* ingestion is handed to add_task, the response is built.
SaveUploadedFile(d) ==
    /\ upload[d].pc = "save"
    /\ \E saveOk \in BOOLEAN :
         upload' = [upload EXCEPT ![d] =
            IF saveOk
            THEN UploadResponse([upload[d] EXCEPT !.added = TRUE])
            ELSE [upload[d] EXCEPT !.pc = "responded", !.status_code = 500,
                                   !.body = "detail"]]
    /\ UNCHANGED <<app, documents, knowledge_base, vector_store, persisted, ing, del,
                   snapshot, qa, queries, splitter>>

-----------------------------------------------------------------------------
\* The text splitter: self.text_splitter.split_documents(documents)
\* (document_service.py line 68), a RecursiveCharacterTextSplitter with
\* chunk_size and chunk_overlap from the settings and length_function=len. The
\* text is that of one loaded Document and holds no whitespace, so none of the
\* separators "\n\n", "\n", " ": the splitter then falls to its last separator
\* "", takes the characters of the text as the splits, and merges those that
\* are shorter than the chunk size back into chunks.

\* split_text is called with a text of some length under some setting of
\* CHUNK_SIZE and CHUNK_OVERLAP (0 <= overlap < size).
SplitDocuments ==
    /\ splitter.pc = "idle"
    /\ \E s \in SplitterSettings, length \in TextLengths :
         /\ s.chunk_overlap < s.chunk_size
         /\ splitter' = [IdleSplitter EXCEPT !.pc = "merge",
                                             !.chunk_size = s.chunk_size,
                                             !.chunk_overlap = s.chunk_overlap,
                                             !.length = length]
    /\ UNCHANGED <<app, documents, knowledge_base, vector_store, persisted, ing, del,
                   snapshot, qa, queries, upload>>

\* A while loop that pops until current_doc is empty: every chunk starts from
\* nothing
PopsToEmpty(total, len, chunk_size, chunk_overlap) == total > 0

\* The condition of the while loop of _merge_splits (splits joined by "", so
\* no separator length): current_doc is longer than the overlap, or the next
\* split does not fit.
KeepsPopping(total, len, chunk_size, chunk_overlap) ==
    total > chunk_overlap \/ (total + len > chunk_size /\ total > 0)

\* The splitter takes the next split, one character. A split shorter than the
\* chunk size goes through one iteration of the for loop of _merge_splits:
\* when it does not fit, current_doc (if not empty) is joined and emitted as a
\* chunk and the while loop is entered; otherwise the split is appended. A
\* split that is not shorter than the chunk size (chunk_size = 1) is a chunk
\* of its own, there being no further separator to split it with.
MergeSplits ==
    /\ splitter.pc = "merge"
    /\ splitter.next < splitter.length
    /\ LET len == 1
       IN  IF len < splitter.chunk_size
           THEN IF splitter.total + len > splitter.chunk_size /\ splitter.total > 0
                THEN splitter' = [splitter EXCEPT !.pc = "pop",
                                                  !.docs = splitter.docs + 1]
                ELSE splitter' = [splitter EXCEPT !.next = splitter.next + 1,
                                                  !.total = splitter.total + len]
           ELSE splitter' = [splitter EXCEPT !.next = splitter.next + 1,
                                             !.docs = splitter.docs + 1]
    /\ UNCHANGED <<app, documents, knowledge_base, vector_store, persisted, ing, del,
                   snapshot, qa, queries, upload>>

\* One iteration of the while loop of _merge_splits after a chunk was emitted:
\* a split (one character) is popped from the front of current_doc; when the
\* loop ends, what is kept is the overlap and the split is appended to it.
PopSplit ==
    /\ splitter.pc = "pop"
    /\ LET len == 1
       IN  IF KeepsPopping(splitter.total, len, splitter.chunk_size,
                           splitter.chunk_overlap)
           THEN splitter' = [splitter EXCEPT !.total = splitter.total - len]
           ELSE splitter' = [splitter EXCEPT !.pc = "merge",
                                             !.next = splitter.next + 1,
                                             !.total = splitter.total + len]
    /\ UNCHANGED <<app, documents, knowledge_base, vector_store, persisted, ing, del,
                   snapshot, qa, queries, upload>>

\* An end of _merge_splits that drops what is left in current_doc
JoinDocsDropsRest ==
    /\ splitter.pc = "merge"
    /\ splitter.next = splitter.length
    /\ splitter' = [splitter EXCEPT !.pc = "done"]
    /\ UNCHANGED <<app, documents, knowledge_base, vector_store, persisted, ing, del,
                   snapshot, qa, queries, upload>>

\* The end of _merge_splits: what is left in current_doc is joined and emitted
\* (an empty join is dropped). len(chunks) is the chunk_count that
\* process_document stores (line 80).
JoinDocs ==
    /\ splitter.pc = "merge"
    /\ splitter.next = splitter.length
    /\ splitter' = [splitter EXCEPT !.pc = "done",
                                    !.docs = IF splitter.total > 0
                                             THEN splitter.docs + 1
                                             ELSE splitter.docs]
    /\ UNCHANGED <<app, documents, knowledge_base, vector_store, persisted, ing, del,
                   snapshot, qa, queries, upload>>

-----------------------------------------------------------------------------
\* Ingestion: the task process_document_background, which runs
\* process_document and then add_document_chunks.

\* process_document_background is entered (documents.py lines 69-78) with the
\* arguments upload_document hands to add_task (lines 48-54): a content type
\* that passed the ALLOWED_FILE_TYPES check. n: the number of chunks the
\* splitter will produce for the file.
ProcessDocumentBackground(d) ==
    /\ app = "serving"
    /\ ing[d].pc = "idle"
    /\ \E ct \in ALLOWED_FILE_TYPES, n \in 0..MaxChunks :
         ing' = [ing EXCEPT ![d] = [IdleIngest EXCEPT !.pc = "load",
                                       !.content_type = ct, !.chunks = n]]
    /\ UNCHANGED <<app, documents, knowledge_base, vector_store, persisted, del,
                   snapshot, qa, queries, upload, splitter>>

\* process_document up to its first await (lines 54-85): type check, load,
\* split. A failure goes to the except block.
LoadAndSplit(d) ==
    /\ ing[d].pc = "load"
    /\ \E loadOk \in BOOLEAN :
         IF ing[d].content_type \in loaders /\ loadOk
         THEN ing' = [ing EXCEPT ![d].pc = "insert_document"]
         ELSE ing' = [ing EXCEPT ![d].pc = "except", ![d].error = "load"]
    /\ UNCHANGED <<app, documents, knowledge_base, vector_store, persisted, del,
                   snapshot, qa, queries, upload, splitter>>

\* database.documents.insert_one(document_record): the record is written with
\* status processed before any chunk is stored (lines 74-89).
InsertDocument(d) ==
    /\ ing[d].pc = "insert_document"
    /\ \E ok \in BOOLEAN :
         IF ok
         THEN /\ documents' = [documents EXCEPT ![d] =
                    [status |-> "processed", chunk_count |-> ing[d].chunks,
                     error |-> "none"]]
              /\ ing' = [ing EXCEPT ![d].pc =
                    IF ing[d].chunks > 0 THEN "insert_chunks" ELSE "add_find"]
         ELSE /\ documents' = documents
              /\ ing' = [ing EXCEPT ![d].pc = "except", ![d].error = "insert_document"]
    /\ UNCHANGED <<app, knowledge_base, vector_store, persisted, del, snapshot, qa, queries, upload, splitter>>

\* database.knowledge_base.insert_many(chunk_records) (lines 91-112). An
\* ordered insert_many that fails has written the records before the failing
\* one, or all of them when only the acknowledgement is lost: any prefix of
\* the batch.
InsertChunks(d) ==
    /\ ing[d].pc = "insert_chunks"
    /\ \/ /\ knowledge_base' = knowledge_base \o ChunkRecords(d, ing[d].chunks)
          /\ ing' = [ing EXCEPT ![d].pc = "add_find"]
       \/ \E written \in 0..ing[d].chunks :
            /\ knowledge_base' = knowledge_base \o ChunkRecords(d, written)
            /\ ing' = [ing EXCEPT ![d].pc = "except", ![d].error = "insert_chunks"]
    /\ UNCHANGED <<app, documents, vector_store, persisted, del, snapshot, qa, queries, upload, splitter>>

\* The except block of process_document (lines 114-126): update_one sets the
\* record, if there is one, to failed; then the exception is re-raised and
\* process_document_background logs it. update_one may itself raise.
MarkFailed(d) ==
    /\ ing[d].pc = "except"
    /\ \E ok \in BOOLEAN :
         documents' =
           IF ok /\ documents[d].status # "absent"
           THEN [documents EXCEPT ![d].status = "failed", ![d].error = ing[d].error]
           ELSE documents
    /\ ing' = [ing EXCEPT ![d].pc = "done"]
    /\ UNCHANGED <<app, knowledge_base, vector_store, persisted, del, snapshot, qa, queries, upload, splitter>>

\* add_document_chunks, the enumeration of the document's chunks (lines 85-90).
\* A failure is logged and ends the task.
AddFind(d) ==
    /\ ing[d].pc = "add_find"
    /\ \E ok \in BOOLEAN :
         IF ok
         THEN ing' = [ing EXCEPT ![d].pc = "add_texts",
                                 ![d].batch = FindByDocument(knowledge_base, d)]
         ELSE ing' = [ing EXCEPT ![d].pc = "done", ![d].add = "failed"]
    /\ UNCHANGED <<app, documents, knowledge_base, vector_store, persisted, del,
                   snapshot, qa, queries, upload, splitter>>

\* add_document_chunks, the synchronous rest (lines 92-105).
AddDocumentChunks(d) ==
    /\ ing[d].pc = "add_texts"
    /\ \E embedOk \in BOOLEAN, saveOk \in BOOLEAN :
         LET r == AddResult(ing[d].batch, vector_store, persisted, embedOk, saveOk)
         IN  /\ vector_store' = r.vector_store
             /\ persisted' = r.persisted
             /\ ing' = [ing EXCEPT ![d].pc = "done", ![d].add = r.add]
             /\ snapshot' = IF ing[d].batch # <<>> /\ snapshot.exists /\ embedOk
                            THEN Store(snapshot.index \o ing[d].batch)
                            ELSE snapshot
    /\ UNCHANGED <<app, documents, knowledge_base, del, qa, queries, upload, splitter>>

-----------------------------------------------------------------------------
\* Deletion: DELETE /{document_id} runs DocumentService.delete_document and,
\* when that returns True, remove_document_chunks = rebuild_vector_store.

\* delete_document up to the result of delete_one (lines 165-172). Nothing
\* deleted: return False (404).
DeleteOne(d) ==
    /\ app = "serving"
    /\ del[d].pc = "idle"
    /\ \E ok \in BOOLEAN :
         IF ~ok
         THEN /\ documents' = documents
              /\ del' = [del EXCEPT ![d].pc = "error"]
         ELSE IF documents[d].status = "absent"
              THEN /\ documents' = documents
                   /\ del' = [del EXCEPT ![d].pc = "not_found"]
              ELSE /\ documents' = [documents EXCEPT ![d] = NoDocument]
                   /\ del' = [del EXCEPT ![d].pc = "delete_chunks"]
    /\ UNCHANGED <<app, knowledge_base, vector_store, persisted, ing, snapshot, qa, queries, upload, splitter>>

\* delete_many of the document's chunks, then return True (lines 174-178).
DeleteChunks(d) ==
    /\ del[d].pc = "delete_chunks"
    /\ \E ok \in BOOLEAN :
         IF ok
         THEN /\ knowledge_base' = DeleteMany(knowledge_base, d)
              /\ del' = [del EXCEPT ![d].pc = "rebuild_find"]
         ELSE /\ knowledge_base' = knowledge_base
              /\ del' = [del EXCEPT ![d].pc = "error"]
    /\ UNCHANGED <<app, documents, vector_store, persisted, ing, snapshot, qa, queries, upload, splitter>>

\* The processed documents whose add_document_chunks has ended in a failure
FailedAdds ==
    {e \in DocIds : /\ ing[e].pc = "done" /\ ing[e].add = "failed"
                    /\ documents[e].status = "processed"}

\* rebuild_vector_store, the enumeration of all chunks (lines 50-54).
RebuildFind(d) ==
    /\ del[d].pc = "rebuild_find"
    /\ \E ok \in BOOLEAN :
         IF ok
         THEN del' = [del EXCEPT ![d].pc = "rebuild_build",
                                 ![d].enumerated = knowledge_base,
                                 ![d].unindexed = FailedAdds]
         ELSE del' = [del EXCEPT ![d].pc = "error"]
    /\ UNCHANGED <<app, documents, knowledge_base, vector_store, persisted, ing,
                   snapshot, qa, queries, upload, splitter>>

\* rebuild_vector_store, the synchronous rest (lines 56-81), then the response.
RebuildVectorStore(d) ==
    /\ del[d].pc = "rebuild_build"
    /\ \E embedOk \in BOOLEAN, saveOk \in BOOLEAN :
         LET r == RebuildResult(del[d].enumerated, vector_store, persisted,
                                embedOk, saveOk)
         IN  /\ vector_store' = r.vector_store
             /\ persisted' = r.persisted
             /\ del' = [del EXCEPT ![d].pc = IF r.raised THEN "error" ELSE "done"]
             /\ snapshot' = IF ~embedOk THEN snapshot
                            ELSE IF del[d].enumerated # <<>>
                                 THEN Store(del[d].enumerated)
                                 ELSE Store(<<Placeholder>>)
    /\ UNCHANGED <<app, documents, knowledge_base, ing, qa, queries, upload, splitter>>

-----------------------------------------------------------------------------
\* Question answering

\* VectorService.search_similar(query, k) (lines 114-124), which is also the
\* documents of search_similar_with_scores: no await, so one step. No index:
\* []. An exception of the search (the query cannot be embedded): logged, [].
SearchSimilar(store, k, ok) ==
    IF ~store.exists \/ ~ok THEN {<<>>} ELSE SearchHits(store, k)

\* VectorService.search_similar_with_scores(query, k) (lines 126-136): the
\* same hits, nearest first, each with its distance.
SearchSimilarWithScores(store, k, ok) ==
    UNION {{[i \in 1..Len(h) |-> [doc |-> h[i], score |-> sc[i]]] :
               sc \in Ascending(Len(h))} : h \in SearchSimilar(store, k, ok)}

\* The documents whose chunks a list of hits holds
HitDocs(hits) == {hits[i].document_id : i \in 1..Len(hits)}

\* The sources loop (lines 70-80): relevance_score = 1.0 - score
Sources(docs_with_scores, include_sources) ==
    IF include_sources
    THEN [i \in 1..Len(docs_with_scores) |->
            [document_id |-> docs_with_scores[i].doc.document_id,
             chunk_index |-> docs_with_scores[i].doc.chunk_index,
             relevance_score |-> 100 - docs_with_scores[i].score]]
    ELSE <<>>

RECURSIVE SumRelevance(_)
SumRelevance(sources) ==
    IF sources = <<>> THEN 0
    ELSE Head(sources).relevance_score + SumRelevance(Tail(sources))

\* avg_relevance (line 83)
AvgRelevance(sources) ==
    IF sources # <<>> THEN <<SumRelevance(sources), 100 * Len(sources)>> ELSE Zero

\* answer_length_factor = min(1.0, len(result) / 200) (line 84)
AnswerLengthFactor(len) ==
    IF len >= LengthScale THEN <<1, 1>> ELSE <<len, LengthScale>>

\* confidence = (avg_relevance + answer_length_factor) / 2 (line 85), reported
\* as min(0.95, confidence) (line 92)
Confidence(sources, len) ==
    LET a == AvgRelevance(sources)
        f == AnswerLengthFactor(len)
        c == <<a[1] * f[2] + f[1] * a[2], 2 * a[2] * f[2]>>
    IN  IF Less(c, ConfidenceCap) THEN c ELSE ConfidenceCap

\* The return of the no-result branch (lines 40-50)
NoResultResponse(query_id) ==
    [answer |-> [kind |-> "no_relevant_information", len |-> NoResultAnswerLen],
     confidence |-> Zero, sources |-> <<>>, query_id |-> query_id]

\* The response of the normal path (lines 69-98)
AnswerResponse(docs_with_scores, include_sources, len, query_id) ==
    LET sources == Sources(docs_with_scores, include_sources)
    IN  [answer |-> [kind |-> "generated", len |-> len],
         confidence |-> Confidence(sources, len),
         sources |-> sources, query_id |-> query_id]

\* An except block that logs and re-raises instead of returning a response
ErrorReturnReraises(query_id, errLen) == [response |-> NoResponse, raised |-> TRUE]

\* The except block of answer_question (lines 105-117): the exception is
\* logged and turned into a response whose answer quotes it. errLen: len(str(e)).
ErrorReturn(query_id, errLen) ==
    [response |-> [answer |-> [kind |-> "error", len |-> ErrorAnswerHeadLen + errLen],
                   confidence |-> Zero, sources |-> <<>>, query_id |-> query_id],
     raised |-> FALSE]

\* _save_query_to_database without its own try: a failed write reaches the
\* except block of answer_question
ReturnAfterSaveRaises(response, ok) ==
    IF ok THEN [response |-> response, raised |-> FALSE]
    ELSE ErrorReturn(response.query_id, 0)

\* _save_query_to_database seen from answer_question (lines 100-103, 119-141):
\* a failed insert_one is logged inside, and the response built before the
\* write is what answer_question returns.
ReturnAfterSave(response, ok) == [response |-> response, raised |-> FALSE]

\* query_record (lines 124-136)
QueryRecord(response) ==
    [id |-> response.query_id, answer |-> response.answer,
     confidence |-> response.confidence, sources_count |-> Len(response.sources)]

\* POST /ask with a body that fails the validation of QueryRequest: FastAPI
\* answers 422 and ask_question is not called (queries.py lines 12-13).
RejectQuestion ==
    /\ app = "serving"
    /\ qa.pc \in {"idle", "returned", "rejected"}
    /\ \E question_len \in QuestionLengths :
         /\ ~ValidQuestion(question_len)
         /\ qa' = [IdleQuery EXCEPT !.pc = "rejected", !.query_id = qa.query_id,
                                    !.question_len = question_len,
                                    !.status_code = 422]
    /\ UNCHANGED <<app, documents, knowledge_base, vector_store, persisted, ing, del,
                   snapshot, queries, upload, splitter>>

\* POST /ask with a valid body: ask_question calls answer_question, here up to
\* its only await (lines 28-98): the search, then the no-result return, or the
\* generation and the response; an exception goes to the except block.
AnswerQuestion ==
    /\ app = "serving"
    /\ qa.pc \in {"idle", "returned", "rejected"}
    /\ qa.query_id < MaxQueries
    /\ \E question_len \in {l \in QuestionLengths : ValidQuestion(l)},
          k \in 1..MaxK, include_sources \in BOOLEAN, searchOk \in BOOLEAN :
         \E docs_with_scores \in SearchSimilarWithScores(vector_store, k, searchOk) :
            LET query_id == qa.query_id + 1
                call == [IdleQuery EXCEPT !.query_id = query_id,
                                          !.question_len = question_len,
                                          !.include_sources = include_sources,
                                          !.docs_with_scores = docs_with_scores]
            IN  IF docs_with_scores = <<>>
                THEN qa' = [call EXCEPT !.pc = "returned", !.status_code = 200,
                                        !.response = NoResultResponse(query_id)]
                ELSE \/ \E errLen \in ErrorLengths :
                          LET r == ErrorReturn(query_id, errLen)
                          IN  qa' = [call EXCEPT !.pc = "returned",
                                                 !.status_code =
                                                    IF r.raised THEN 500 ELSE 200,
                                                 !.generation = "failed",
                                                 !.response = r.response,
                                                 !.raised = r.raised]
                     \/ \E len \in AnswerLengths :
                          qa' = [call EXCEPT !.pc = "saving",
                                             !.generation = "answered",
                                             !.result_len = len,
                                             !.response = AnswerResponse(
                                                docs_with_scores, include_sources,
                                                len, query_id)]
    /\ UNCHANGED <<app, documents, knowledge_base, vector_store, persisted, ing, del,
                   snapshot, queries, upload, splitter>>

\* await self._save_query_to_database(...), then return response (lines 100-103)
SaveQueryToDatabase ==
    /\ qa.pc = "saving"
    /\ \E ok \in BOOLEAN :
         LET r == ReturnAfterSave(qa.response, ok)
         IN  /\ queries' = IF ok THEN Append(queries, QueryRecord(qa.response))
                           ELSE queries
             /\ qa' = [qa EXCEPT !.pc = "returned", !.response = r.response,
                                 !.status_code = IF r.raised THEN 500 ELSE 200,
                                 !.raised = r.raised,
                                 !.saved = IF ok THEN "ok" ELSE "failed"]
    /\ UNCHANGED <<app, documents, knowledge_base, vector_store, persisted, ing, del,
                   snapshot, upload, splitter>>

-----------------------------------------------------------------------------
Next ==
    \/ InitializeVectorStore
    \/ ServeWithoutLifespan
    \/ \E d \in DocIds :
         \/ ProcessDocumentBackground(d)
         \/ LoadAndSplit(d)
         \/ InsertDocument(d)
         \/ InsertChunks(d)
         \/ MarkFailed(d)
         \/ AddFind(d)
         \/ AddDocumentChunks(d)
         \/ DeleteOne(d)
         \/ DeleteChunks(d)
         \/ RebuildFind(d)
         \/ RebuildVectorStore(d)

Spec == Init /\ [][Next]_vars

\* Question answering against a store that earlier runs have filled
\* (scripts/init_db.py inserts documents with their chunks): the service starts
\* and answers questions; no ingestion or deletion runs meanwhile.
InitQA ==
    /\ app = "created"
    /\ \E n \in 0..MaxChunks :
         /\ knowledge_base = ChunkRecords("d1", n)
         /\ documents = [d \in DocIds |->
               IF d = "d1" /\ n > 0
               THEN [status |-> "processed", chunk_count |-> n, error |-> "none"]
               ELSE NoDocument]
    /\ vector_store = None
    /\ persisted = None
    /\ ing = [d \in DocIds |-> IdleIngest]
    /\ del = [d \in DocIds |-> IdleDelete]
    /\ snapshot = None
    /\ qa = IdleQuery
    /\ queries = <<>>
    /\ upload = [d \in DocIds |-> IdleUpload]
    /\ splitter = IdleSplitter

NextQA ==
    \/ InitializeVectorStore
    \/ ServeWithoutLifespan
    \/ RejectQuestion
    \/ AnswerQuestion
    \/ SaveQueryToDatabase

SpecQA == InitQA /\ [][NextQA]_vars

\* The upload endpoint: the service starts and answers POST /upload requests.
NextUpload ==
    \/ InitializeVectorStore
    \/ ServeWithoutLifespan
    \/ \E d \in DocIds :
         \/ UploadDocument(d)
         \/ SaveUploadedFile(d)

SpecUpload == Init /\ [][NextUpload]_vars

\* The text splitter on its own: one text is split.
NextSplitter ==
    \/ SplitDocuments
    \/ MergeSplits
    \/ PopSplit
    \/ JoinDocs

SpecSplitter == Init /\ [][NextSplitter]_vars

\* No ingestion, deletion or rebuild is in flight
Quiescent ==
    \A d \in DocIds :
        /\ ing[d].pc \in {"idle", "done"}
        /\ del[d].pc \in {"idle", "done", "not_found", "error"}

\* One step of the background task of upload d, once it has been entered
IngestionStep(d) ==
    \/ LoadAndSplit(d)
    \/ InsertDocument(d)
    \/ InsertChunks(d)
    \/ MarkFailed(d)
    \/ AddFind(d)
    \/ AddDocumentChunks(d)

\* Ingestions on their own: the service starts and the background tasks of
\* the uploads run.
NextIngestion ==
    \/ InitializeVectorStore
    \/ ServeWithoutLifespan
    \/ \E d \in DocIds :
         \/ ProcessDocumentBackground(d)
         \/ IngestionStep(d)

\* The event loop resumes every task whose awaited call has returned or
\* raised, and every awaited call of the ingestion does one or the other: a
\* background task that can take a step eventually takes it.
SpecIngestion ==
    /\ Init
    /\ [][NextIngestion]_vars
    /\ \A d \in DocIds : WF_vars(IngestionStep(d))

\* The process is stopped and started again while no request or background
\* task is in flight: the index in memory is gone (a new VectorService starts
\* with vector_store = None), the store and the index file stay, and lifespan
\* (main.py lines 21-34) runs initialize_vector_store before requests are
\* served again.
Restart ==
    /\ app = "serving"
    /\ Quiescent
    /\ app' = "created"
    /\ vector_store' = None
    /\ snapshot' = None
    /\ UNCHANGED <<documents, knowledge_base, persisted, ing, del, qa, queries,
                   upload, splitter>>

\* The service under lifespan, with restarts
NextRestart ==
    \/ InitializeVectorStore
    \/ Restart
    \/ \E d \in DocIds :
         \/ ProcessDocumentBackground(d)
         \/ IngestionStep(d)
         \/ DeleteOne(d)
         \/ DeleteChunks(d)
         \/ RebuildFind(d)
         \/ RebuildVectorStore(d)

SpecRestart == Init /\ [][NextRestart]_vars

-----------------------------------------------------------------------------
\* Properties of answer_question (checked under SpecQA)

\* C1: the confidence of every returned Query lies in [0.0, 0.95], for every
\* list of distances, every answer length and both values of include_sources.
C1_ConfidenceWithinBounds ==
    qa.pc = "returned" =>
        /\ Leq(Zero, qa.response.confidence)
        /\ Leq(qa.response.confidence, ConfidenceCap)

\* C2: when the search has nothing to return because the index was never
\* populated or the store holds no documents, answer_question returns the fixed
\* no-relevant-information answer with confidence 0.0 and no sources, without
\* invoking the generation and without raising.
C2_NothingToSearchGivesFixedAnswer ==
    (qa.pc = "returned" /\ (~vector_store.exists \/ knowledge_base = <<>>)) =>
        /\ qa.response = NoResultResponse(qa.query_id)
        /\ qa.generation = "not_invoked"
        /\ ~qa.raised

\* C3: when the generation raises, answer_question returns normally a Query
\* with confidence 0.0, no sources and a non-empty answer describing the
\* failure; no call of answer_question lets an exception out.
C3_FailureGivesDegradedAnswer ==
    qa.pc = "returned" =>
        /\ ~qa.raised
        /\ qa.generation = "failed" =>
             /\ qa.response.confidence = Zero
             /\ qa.response.sources = <<>>
             /\ qa.response.answer.kind = "error"
             /\ qa.response.answer.len > 0
             /\ qa.response.query_id = qa.query_id

C3_GenerationFailed == qa.pc = "returned" /\ qa.generation = "failed"

\* C4: every call that returns a Query has appended exactly one record with its
\* query id to the query store, on the normal path, the no-result path and the
\* failure path alike (the write itself not failing).
C4_OneRecordPerReturnedQuery ==
    (qa.pc = "returned" /\ ~qa.raised /\ qa.saved # "failed") =>
        Cardinality({i \in DOMAIN queries : queries[i].id = qa.response.query_id}) = 1

\* C5: whether the write of the query record succeeds or fails, answer_question
\* returns, without raising, the answer, confidence and sources it computed
\* from the search results and the generated text.
C5_WriteFailureLeavesAnswer ==
    (qa.pc = "returned" /\ qa.saved # "not_attempted") =>
        /\ ~qa.raised
        /\ qa.response = AnswerResponse(qa.docs_with_scores, qa.include_sources,
                                        qa.result_len, qa.query_id)

C5_WriteFailed ==
    /\ qa.pc = "returned"
    /\ qa.saved = "failed"
    /\ qa.response.sources # <<>>
    /\ Less(Zero, qa.response.confidence)

-----------------------------------------------------------------------------
\* Properties of the index and the store (checked under Spec)

\* C6: once delete_document(d) has returned true and the rebuild it triggered
\* has completed, no search returns a chunk of document d.
C6_DeletedDocumentNeverReturned ==
    \A d \in DocIds :
        del[d].pc = "done" =>
            \A k \in 1..MaxK : \A hits \in SearchSimilar(vector_store, k, TRUE) :
                d \notin HitDocs(hits)

\* C7: a rebuild that succeeds leaves the index holding exactly the chunks
\* enumerated at its start; an empty enumeration leaves an index with no entry.
C7_RebuildInstallsEnumeration ==
    [][\A d \in DocIds :
          (del[d].pc = "rebuild_build" /\ del'[d].pc = "done") =>
              vector_store'.index = del[d].enumerated]_vars

\* C8: whatever rebuild or add is in flight, a search returns hits of exactly
\* one snapshot: the contents as of the last completed index update, never a
\* mixture of two snapshots and never part of a batch.
C8_SearchSeesOneSnapshot ==
    \/ vector_store = snapshot
    \/ \A k \in 1..MaxK : \A hits \in SearchSimilar(vector_store, k, TRUE) :
          hits \in SearchSimilar(snapshot, k, TRUE)

C8_SearchDuringUpdate ==
    \E d, e \in DocIds :
        /\ del[d].pc = "rebuild_build"
        /\ ing[e].pc = "add_texts"
        /\ Len(ing[e].batch) > 1
        /\ vector_store.exists
        /\ del[d].enumerated # vector_store.index

\* C9: add_document_chunks is all or nothing: when it fails, the index holds
\* none of the document's chunks; when it succeeds, it holds the whole batch.
C9_AddAllOrNothing ==
    [][\A d \in DocIds :
          (ing[d].pc \in {"add_find", "add_texts"} /\ ing'[d].pc = "done") =>
              /\ ing'[d].add = "failed" => d \notin IndexedDocs(vector_store')
              /\ ing'[d].add = "ok" =>
                    \A i \in 1..Len(ing[d].batch) :
                        \E j \in 1..Len(vector_store'.index) :
                            vector_store'.index[j] = ing[d].batch[i]]_vars

\* C10: when the insert of the chunk batch has failed, process_document leaves
\* no Document record of the upload in status processed.
C10_NoProcessedAfterChunkFailure ==
    \A d \in DocIds :
        (ing[d].pc = "done" /\ ing[d].error = "insert_chunks") =>
            documents[d].status \in {"absent", "failed"}

\* C11: the status of a stored Document only changes along
\* uploading -> processing -> {processed | failed}; a record whose status is
\* processed or failed never gets another status. (Creating or deleting the
\* record is not a change of its status.)
C11_StatusTransitions ==
    [][\A d \in DocIds :
          (/\ documents[d].status # "absent"
           /\ documents'[d].status # "absent"
           /\ documents'[d].status # documents[d].status) =>
              <<documents[d].status, documents'[d].status>> \in
                  {<<"uploading", "processing">>, <<"processing", "processed">>,
                   <<"processing", "failed">>}]_vars

\* C12: when a step of process_document has failed after the Document record
\* was created, the record (unless a DELETE has removed it) ends with status
\* failed and the error recorded; no record stays in a non-terminal status.
C12_FailureEndsFailed ==
    \A d \in DocIds :
        /\ (ing[d].pc = "done" /\ ing[d].error = "insert_chunks"
                /\ del[d].pc = "idle") =>
              /\ documents[d].status = "failed"
              /\ documents[d].error = ing[d].error
        /\ ing[d].pc = "done" => documents[d].status \notin {"uploading", "processing"}

\* C14: a failure of add_document_chunks changes no Document record and does
\* not propagate (the task ends without reaching an except block), so the
\* document stays processed; and a rebuild that enumerates the chunks after
\* that failure and succeeds leaves every chunk of the document in the index.
C14_AddFailureSelfHeals ==
    [][/\ \A d \in DocIds :
            (ing[d].pc \in {"add_find", "add_texts"} /\ ing'[d].add = "failed") =>
                /\ documents' = documents
                /\ ing'[d].pc = "done"
                /\ ing'[d].error = "none"
       /\ \A d \in DocIds :
            (del[d].pc = "rebuild_build" /\ del'[d].pc = "done") =>
                \A e \in del[d].unindexed :
                    \A i \in 1..ing[e].chunks :
                        \E j \in 1..Len(vector_store'.index) :
                            vector_store'.index[j] = ChunkRecords(e, ing[e].chunks)[i]]_vars

C14_HealedByRebuild ==
    \E d, e \in DocIds :
        /\ del[d].pc = "done"
        /\ e \in del[d].unindexed
        /\ documents[e].status = "processed"
        /\ ing[e].chunks > 0
        /\ e \in IndexedDocs(vector_store)

\* C19: a rebuild that follows a completed rebuild of the same enumeration (no
\* store mutation between the two enumerations, the index still as the first
\* rebuild left it) leaves the index with the same contents: every search has
\* the same possible results after it as before it.
C19_RebuildIdempotent ==
    [][\A d, e \in DocIds :
          (/\ d # e
           /\ del[e].pc = "done"
           /\ del[d].pc = "rebuild_build"
           /\ del[d].enumerated = del[e].enumerated
           /\ vector_store.exists
           /\ vector_store.index = IF del[e].enumerated = <<>> THEN <<Placeholder>>
                                    ELSE del[e].enumerated
           /\ del'[d].pc # "rebuild_build") =>
              /\ vector_store'.index = vector_store.index
              /\ \A k \in 1..MaxK :
                    SearchSimilar(vector_store', k, TRUE) =
                        SearchSimilar(vector_store, k, TRUE)]_vars

C19_SecondRebuildDone ==
    \E d, e \in DocIds :
        /\ d # e
        /\ del[e].pc = "done"
        /\ del[d].pc = "done"
        /\ del[d].enumerated = del[e].enumerated
        /\ del[d].enumerated # <<>>
        /\ vector_store.index = del[d].enumerated

-----------------------------------------------------------------------------
\* More properties of the question endpoint (checked under SpecQA)

\* C16: a question shorter than the minimum length, the empty question
\* included, is answered with HTTP 422 and no search, no generation call and
\* no write of a query record happens for it.
C16_ShortQuestionRejected ==
    (qa.pc # "idle" /\ qa.question_len < 3) =>
        /\ qa.pc = "rejected"
        /\ qa.status_code = 422
        /\ qa.docs_with_scores = <<>>
        /\ qa.generation = "not_invoked"
        /\ qa.saved = "not_attempted"
        /\ \A i \in DOMAIN queries : queries[i].id # qa.query_id + 1

C16_EmptyQuestionAsked ==
    /\ qa.pc = "rejected" /\ qa.question_len = 0
    /\ vector_store.exists /\ knowledge_base # <<>>

\* C17: for every non-empty search result, every generated answer and both
\* values of include_sources, the confidence of the returned Query equals
\* clamp((mean(relevance of the search results) + min(1, len(answer)/200)) / 2,
\* 0, 0.95), the relevance of a result being 1 - distance clamped to [0,1].
C17_ConfidenceFormula ==
    (qa.pc = "returned" /\ qa.generation = "answered") =>
        LET n == Len(qa.docs_with_scores)
            Clamp(x) == IF x < 0 THEN 0 ELSE IF x > 100 THEN 100 ELSE x
            Sum[i \in 0..n] ==
                IF i = 0 THEN 0
                ELSE Sum[i - 1] + Clamp(100 - qa.docs_with_scores[i].score)
            mean == <<Sum[n], 100 * n>>
            f == IF qa.result_len >= 200 THEN <<1, 1>> ELSE <<qa.result_len, 200>>
            c == <<mean[1] * f[2] + f[1] * mean[2], 2 * mean[2] * f[2]>>
            claimed == IF Less(c, <<0, 1>>) THEN <<0, 1>>
                       ELSE IF Less(<<95, 100>>, c) THEN <<95, 100>> ELSE c
        IN  qa.response.confidence[1] * claimed[2] =
                claimed[1] * qa.response.confidence[2]

\* C18: every relevance score reported for a source equals 1 - distance
\* clamped to [0,1], so it lies in [0,1] for every distance the index returns.
C18_RelevanceClamped ==
    qa.pc = "returned" =>
        \A i \in DOMAIN qa.response.sources :
            LET r == qa.response.sources[i].relevance_score
                x == 100 - qa.docs_with_scores[i].score
            IN  /\ 0 <= r /\ r <= 100
                /\ r = IF x < 0 THEN 0 ELSE IF x > 100 THEN 100 ELSE x

-----------------------------------------------------------------------------
\* Properties of the upload endpoint (checked under SpecUpload)

\* C13: an upload whose content type has no loader (and that is not turned
\* away for its size) gets no further than the content type check: it is
\* answered with HTTP 400, no ingestion is scheduled for it, and no Document
\* record, no chunk and no index entry exists for it.
C13_UnsupportedTypeRejected ==
    \A d \in DocIds :
        (/\ upload[d].pc # "idle"
         /\ upload[d].content_type \notin loaders
         /\ upload[d].status_code # 413) =>
            /\ upload[d].pc = "responded"
            /\ upload[d].status_code = 400
            /\ ~upload[d].added
            /\ documents[d].status = "absent"
            /\ FindByDocument(knowledge_base, d) = <<>>
            /\ d \notin IndexedDocs(vector_store)

\* C15: an upload of a supported content type within the size limit, whose
\* file was saved, is answered with HTTP 200 and the document body (filename,
\* status processing), and its ingestion runs as a background task.
C15_UploadAccepted ==
    \A d \in DocIds :
        (/\ upload[d].pc = "responded"
         /\ upload[d].content_type \in loaders
         /\ ~upload[d].too_large
         /\ upload[d].added) =>
            /\ upload[d].status_code = 200
            /\ upload[d].body = "document"
            /\ upload[d].background

-----------------------------------------------------------------------------
\* Properties of the text splitter (checked under SpecSplitter)

\* C20 as stated: for every text of length len > 0 and every (chunk_size,
\* chunk_overlap) with 0 <= overlap < size, the number of chunks produced is
\* ceil((len - overlap) / (size - overlap)).
C20_ChunkCountFormula ==
    (splitter.pc = "done" /\ splitter.length > 0) =>
        LET a == splitter.length - splitter.chunk_overlap
            b == splitter.chunk_size - splitter.chunk_overlap
        IN  splitter.docs = -((-a) \div b)

\* C20 as amended: for every text of length len > 0 without whitespace and
\* every (chunk_size, chunk_overlap) with 0 <= overlap < size, the number of
\* chunks produced is 1 when len <= size and
\* ceil((len - overlap) / (size - overlap)) otherwise.
C20_ChunkCountAmended ==
    (splitter.pc = "done" /\ splitter.length > 0) =>
        LET a == splitter.length - splitter.chunk_overlap
            b == splitter.chunk_size - splitter.chunk_overlap
        IN  splitter.docs = IF splitter.length <= splitter.chunk_size THEN 1
                            ELSE -((-a) \div b)

C20_LongTextSplit ==
    /\ splitter.pc = "done"
    /\ splitter.chunk_overlap > 0
    /\ splitter.length > 2 * splitter.chunk_size
    /\ splitter.docs >= 3

\* C21 as stated: ingesting a 2500-character document with chunk_size=1000
\* and chunk_overlap=200 stores exactly 4 chunks for it (chunk_count = 4).
C21_FourChunks ==
    (/\ splitter.pc = "done"
     /\ splitter.length = 2500
     /\ splitter.chunk_size = CHUNK_SIZE
     /\ splitter.chunk_overlap = CHUNK_OVERLAP) =>
        splitter.docs = 4

\* C21 as amended: ingesting a text of 2500 characters without whitespace
\* with chunk_size=1000 and chunk_overlap=200 yields exactly 3 chunks
\* (chunk_count = 3): characters 1-1000, 801-1800 and 1601-2500.
C21_ThreeChunks ==
    (/\ splitter.pc = "done"
     /\ splitter.length = 2500
     /\ splitter.chunk_size = CHUNK_SIZE
     /\ splitter.chunk_overlap = CHUNK_OVERLAP) =>
        splitter.docs = 3

C21_ScenarioSplit ==
    /\ splitter.pc = "done"
    /\ splitter.next = 2500
    /\ splitter.chunk_size = 1000
    /\ splitter.chunk_overlap = 200
    /\ splitter.total = 900

-----------------------------------------------------------------------------
\* More properties of the store and the index (checked under Spec)

\* C22: in every reachable state of the chunk store, for each document id
\* either all chunks the chunker produced for that document are present or
\* none of them are, including when the chunk insert fails.
C22_ChunkBatchAtomic ==
    \A d \in DocIds :
        FindByDocument(knowledge_base, d) \in {<<>>, ChunkRecords(d, ing[d].chunks)}

\* C23: at most one rebuild_vector_store is in flight at any time: two
\* rebuilds (for example of two concurrent deletions) never overlap, so that
\* an older enumeration is never installed after a newer one.
C23_OneRebuildInFlight ==
    Cardinality({d \in DocIds : del[d].pc \in {"rebuild_find", "rebuild_build"}}) <= 1

\* C24: when rebuild_vector_store or add_document_chunks fails at any step
\* (enumeration, embedding, saving the index), the failing step leaves the
\* index that searches see exactly as it was, and changes no Document record.
C24_FailureLeavesIndex ==
    [][\A d \in DocIds :
          (\/ /\ del[d].pc \in {"rebuild_find", "rebuild_build"}
              /\ del'[d].pc = "error"
           \/ /\ ing[d].pc \in {"add_find", "add_texts"}
              /\ ing'[d].add = "failed") =>
              /\ vector_store' = vector_store
              /\ documents' = documents]_vars

\* C25: ingesting a document whose text yields zero chunks is not an error:
\* process_document stores the Document with status processed and chunk_count
\* 0 and goes on without reaching its except block, no step of the ingestion
\* writes a chunk record, and the add_document_chunks that follows finds
\* nothing to add and leaves the index unchanged.
C25_ZeroChunksNoError ==
    [][\A d \in DocIds :
          (ing[d].pc \notin {"idle", "load"} /\ ing[d].chunks = 0
              /\ ing'[d] # ing[d]) =>
              /\ knowledge_base' = knowledge_base
              /\ vector_store' = vector_store
              /\ (ing[d].pc = "insert_document" /\ ing'[d].pc # "except") =>
                    /\ documents'[d] = [status |-> "processed", chunk_count |-> 0,
                                        error |-> "none"]
                    /\ ing'[d].pc = "add_find"
              /\ ing[d].pc \in {"add_find", "add_texts"} =>
                    /\ documents' = documents
                    /\ ing'[d].error = "none"
              /\ ing[d].pc = "add_texts" => ing'[d].add = "skipped"]_vars

C25_EmptyDocumentProcessed ==
    \E d \in DocIds :
        /\ ing[d].pc = "done"
        /\ ing[d].chunks = 0
        /\ ing[d].add = "skipped"
        /\ documents[d] = [status |-> "processed", chunk_count |-> 0, error |-> "none"]
        /\ vector_store.exists

\* No external call of an ingestion, a deletion or a rebuild has failed. (A
\* failure at startup leaves either a crashed process or the same index as a
\* startup without failure.)
NoCallFailed ==
    \A d \in DocIds :
        /\ ing[d].error = "none"
        /\ ing[d].add # "failed"
        /\ del[d].pc # "error"

\* The chunks an index holds: its entries, the entry of the empty text that
\* stands for an empty index aside
IndexedChunks(store) ==
    {store.index[i] : i \in 1..Len(store.index)} \ {Placeholder}

\* C26: whenever no ingestion, deletion or rebuild is in flight, the set of
\* chunks held by the index equals the set of chunks in the store, for every
\* interleaving of uploads, deletions and rebuilds in which no external call
\* failed (the service having started with its index initialized).
C26_QuiescentIndexEqualsStore ==
    (Quiescent /\ NoCallFailed /\ vector_store.exists) =>
        IndexedChunks(vector_store) =
            {knowledge_base[i] : i \in 1..Len(knowledge_base)}

\* C27: whenever no ingestion or deletion is in flight, every chunk in the
\* chunk store belongs to a document that exists in the document store, also
\* when delete_document(id) interleaves with the running ingestion of id (and
\* no external call has failed).
C27_NoOrphanChunks ==
    (Quiescent /\ NoCallFailed) =>
        \A i \in 1..Len(knowledge_base) :
            documents[knowledge_base[i].document_id].status # "absent"

\* C28: in every reachable state, every Document record whose status is
\* processed has exactly chunk_count chunks in the chunk store, with the chunk
\* ids <doc id>_chunk_0 .. <doc id>_chunk_<chunk_count - 1>.
C28_ProcessedHasItsChunks ==
    \A d \in DocIds :
        documents[d].status = "processed" =>
            FindByDocument(knowledge_base, d) =
                ChunkRecords(d, documents[d].chunk_count)

-----------------------------------------------------------------------------
\* Progress of the ingestion (checked under SpecIngestion)

\* C29: every upload that the upload endpoint accepts (every content type in
\* ALLOWED_FILE_TYPES), once its background task runs, eventually leads to a
\* stored Document record whose status is processed or failed.
C29_AcceptedUploadSettles ==
    \A d \in DocIds :
        (ing[d].pc = "load") ~> (documents[d].status \in {"processed", "failed"})

-----------------------------------------------------------------------------
\* The index file across restarts (checked under SpecRestart)

\* C30: after every successful rebuild, a rebuild from an empty store
\* included, the persisted index holds the same chunk set as the index in
\* memory; so that after a deletion of document d, its successful rebuild and
\* a restart in which initialize_vector_store serves again, search returns no
\* chunk of d.
C30_PersistedIndexFollowsRebuild ==
    [][\A d \in DocIds :
          /\ (del[d].pc = "rebuild_build" /\ del'[d].pc = "done") =>
                IndexedChunks(persisted') = IndexedChunks(vector_store')
          /\ (app = "created" /\ app' = "serving" /\ del[d].pc = "done") =>
                \A k \in 1..MaxK :
                    \A hits \in SearchSimilar(vector_store', k, TRUE) :
                        d \notin HitDocs(hits)]_vars

====
